---------------------------- MODULE Spec2Model ----------------------------
(***************************************************************************)
(* Model of the catalog reconciliation engine of                           *)
(* src/imdb-playlist-to-plex-07.py: run_imdb_list and the functions it     *)
(* calls (find_imdb_id, clean_title, find_movie_by_title_year,             *)
(* find_movie_by_title, find_existing_collection_items, add_collection).   *)
(*                                                                         *)
(* Strings are sequences of one-character strings, so that lower(),        *)
(* replace(), strip(), split(), str() and int() are computed and not       *)
(* assumed.  fuzz.ratio belongs to the fuzzywuzzy package, not to this     *)
(* repository: it is modelled by what its decorators fix (equal strings    *)
(* score 100, an empty string scores 0) and otherwise by a symmetric table *)
(* of scores chosen by the environment.                                    *)
(***************************************************************************)
EXTENDS Integers, Sequences, FiniteSets, TLC

VARIABLES
    rows,                       \* the parsed CSV rows (source list)
    library,                    \* the Plex movie library (remote)
    collection,                 \* ratingKeys of the members of the collection (remote)
    fuzz,                       \* score of fuzz.ratio on two different non-empty strings
    run,                        \* "first" or "second" invocation of run_imdb_list
    pc,                         \* position inside run_imdb_list
    all_movies,                 \* snapshot returned by movie_library.all()
    existing_collection_items,  \* keys of the dict built by find_existing_collection_items
    members_fetch,              \* "none", "ok" or "failed": how the member search ended
    imdb_map,                   \* IMDB id -> movie
    added_count,
    skipped_count,
    missing_count,
    ordered_movies,             \* pending additions
    report_data,
    i,                          \* index of the next row of the first pass
    j,                          \* index of the next item of the second pass
    outcomes,                   \* per processed row: the locals imdb_id, movie, match_method
    add_calls,                  \* invocations of add_collection, in call order
    first_report,               \* report_data returned by the first invocation
    tier_result,                \* result of one fuzzy tier applied on its own
    title_key                   \* result of clean_title applied on its own

vars == << rows, library, collection, fuzz, run, pc, all_movies,
           existing_collection_items, members_fetch, imdb_map, added_count,
           skipped_count, missing_count, ordered_movies, report_data, i, j,
           outcomes, add_calls, first_report, tier_result, title_key >>

-----------------------------------------------------------------------------
(* Python values *)

\* None where a string is expected (find_imdb_id without a match)
NoneStr == << "<None>" >>

\* None where an integer is expected (a Plex movie without a year)
NoneYear == -1

Max(a, b) == IF a >= b THEN a ELSE b

Abs(n) == IF n < 0 THEN -n ELSE n

-----------------------------------------------------------------------------
(* str methods *)

Whitespace == { " " }

DigitChars == << "0", "1", "2", "3", "4", "5", "6", "7", "8", "9" >>

DigitSet == { DigitChars[k] : k \in 1..10 }

DigitValue(c) == (CHOOSE k \in 1..10 : DigitChars[k] = c) - 1

\* str.lower() on one character
LowerChar(c) ==
    CASE c = "A" -> "a"
      [] c = "B" -> "b"
      [] c = "T" -> "t"
      [] OTHER -> c

\* str.lower()
lower(s) == [ k \in 1..Len(s) |-> LowerChar(s[k]) ]

\* s[k:].startswith(pat), k counted from 1
MatchAt(s, pat, k) ==
    /\ k + Len(pat) - 1 <= Len(s)
    /\ \A n \in 1..Len(pat) : s[k + n - 1] = pat[n]

\* s.find(pat) counted from 1; 0 when pat does not occur
Find(s, pat) ==
    IF \E k \in 1..Len(s) : MatchAt(s, pat, k)
    THEN CHOOSE k \in 1..Len(s) :
            /\ MatchAt(s, pat, k)
            /\ \A n \in 1..(k - 1) : ~MatchAt(s, pat, n)
    ELSE 0

\* pat in s
Contains(s, pat) == Find(s, pat) # 0

RECURSIVE ReplaceFrom(_, _, _)
\* s[k:].replace(pat, ""): every non-overlapping occurrence, left to right
ReplaceFrom(s, pat, k) ==
    IF k > Len(s) THEN << >>
    ELSE IF MatchAt(s, pat, k) THEN ReplaceFrom(s, pat, k + Len(pat))
    ELSE << s[k] >> \o ReplaceFrom(s, pat, k + 1)

RECURSIVE strip(_)
\* str.strip()
strip(s) ==
    IF s = << >> THEN << >>
    ELSE IF s[1] \in Whitespace THEN strip(Tail(s))
    ELSE IF s[Len(s)] \in Whitespace THEN strip(SubSeq(s, 1, Len(s) - 1))
    ELSE s

RECURSIVE split(_, _)
\* str.split(sep)
split(s, sep) ==
    LET k == Find(s, sep)
    IN  IF k = 0 THEN << s >>
        ELSE << SubSeq(s, 1, k - 1) >> \o split(SubSeq(s, k + Len(sep), Len(s)), sep)

RECURSIVE StrNat(_)
StrNat(n) ==
    IF n < 10 THEN << DigitChars[n + 1] >>
    ELSE StrNat(n \div 10) \o << DigitChars[(n % 10) + 1] >>

\* str(movie.year)
Str(y) == IF y = NoneYear THEN << "N", "o", "n", "e" >> ELSE StrNat(y)

\* int(s) raises ValueError unless s is a run of digits (blanks around it allowed)
IsIntLiteral(s) ==
    /\ strip(s) # << >>
    /\ \A k \in 1..Len(strip(s)) : strip(s)[k] \in DigitSet

RECURSIVE ParseDigits(_)
ParseDigits(s) ==
    IF s = << >> THEN 0
    ELSE 10 * ParseDigits(SubSeq(s, 1, Len(s) - 1)) + DigitValue(s[Len(s)])

\* int(s) for a string s that is an integer literal
IntOfStr(s) == ParseDigits(strip(s))

-----------------------------------------------------------------------------
(* Constants of the program *)

TITLE_YEAR_MATCH_RATIO == 85

TITLE_ONLY_MATCH_RATIO == 90

\* abs(int(movie.year) - int(year)) > 2
YEAR_TOLERANCE == 2

\* the falsy movie: imdb_map.get without a hit, a fuzzy tier returning None
NoMovie == [ ratingKey |-> 0, title |-> << >>, year |-> NoneYear, guid |-> << >> ]

ImdbScheme == << "i", "m", "d", "b", ":", "/", "/" >>

-----------------------------------------------------------------------------
(* Functions of the program *)

RECURSIVE DigitRunEnd(_, _)
\* index of the last digit of the run of digits that starts at k
DigitRunEnd(s, k) ==
    IF k + 1 <= Len(s) /\ s[k + 1] \in DigitSet THEN DigitRunEnd(s, k + 1) ELSE k

\* re.search(r'(tt\d+)', imdb_url) matches at k
IdMatchAt(s, k) ==
    /\ MatchAt(s, << "t", "t" >>, k)
    /\ k + 2 <= Len(s)
    /\ s[k + 2] \in DigitSet

\* find_imdb_id: the leftmost, greedy match of tt\d+, or None
find_imdb_id(imdb_url) ==
    IF \E k \in 1..Len(imdb_url) : IdMatchAt(imdb_url, k)
    THEN LET k == CHOOSE k \in 1..Len(imdb_url) :
                    /\ IdMatchAt(imdb_url, k)
                    /\ \A n \in 1..(k - 1) : ~IdMatchAt(imdb_url, n)
         IN  SubSeq(imdb_url, k, DigitRunEnd(imdb_url, k + 2))
    ELSE NoneStr

\* clean_title: title.lower().replace("the ", "").strip()
clean_title(title) ==
    IF title = << >> THEN << >>
    ELSE strip(ReplaceFrom(lower(title), << "t", "h", "e", " " >>, 1))

\* fuzz.ratio(s1, s2)
ratio(s1, s2) ==
    IF s1 = s2 THEN 100
    ELSE IF s1 = << >> \/ s2 = << >> THEN 0
    ELSE fuzz[{ s1, s2 }]

\* the id with the query string of the guid left on it
GuidImdbId_KeepQuery(guid) == split(guid, ImdbScheme)[2]

\* movie.guid.split('imdb://')[1].split('?')[0]
GuidImdbId(guid) == split(split(guid, ImdbScheme)[2], << "?" >>)[1]

\* the score of one candidate in both fuzzy tiers: max(title_score, original_score)
current_score(movie, title, original_title) ==
    LET title_score == ratio(clean_title(movie.title), clean_title(title))
        original_score ==
            IF original_title # << >>
            THEN ratio(clean_title(movie.title), clean_title(original_title))
            ELSE 0
    IN  Max(title_score, original_score)

\* the exact pass of find_movie_by_title_year accepts this movie
ExactTitleYear(movie, title, year, original_title) ==
    /\ \/ lower(movie.title) = lower(title)
       \/ original_title # << >> /\ lower(movie.title) = lower(original_title)
    /\ Str(movie.year) = year

RECURSIVE TitleYearScan_AnyYear(_, _, _, _, _, _, _)
\* a similarity loop that does not look at the year
TitleYearScan_AnyYear(movies, k, title, year, original_title, best_match, highest_score) ==
    IF k > Len(movies)
    THEN [ best_match |-> best_match, highest_score |-> highest_score ]
    ELSE LET score == current_score(movies[k], title, original_title)
         IN  IF score > highest_score
             THEN TitleYearScan_AnyYear(movies, k + 1, title, year, original_title,
                                        movies[k], score)
             ELSE TitleYearScan_AnyYear(movies, k + 1, title, year, original_title,
                                        best_match, highest_score)

RECURSIVE TitleYearScan(_, _, _, _, _, _, _)
\* the similarity loop of find_movie_by_title_year from movies[k] on
TitleYearScan(movies, k, title, year, original_title, best_match, highest_score) ==
    IF k > Len(movies)
    THEN [ best_match |-> best_match, highest_score |-> highest_score ]
    ELSE LET score == current_score(movies[k], title, original_title)
         IN  IF Str(movies[k].year) = year /\ score > highest_score
             THEN TitleYearScan(movies, k + 1, title, year, original_title,
                                movies[k], score)
             ELSE TitleYearScan(movies, k + 1, title, year, original_title,
                                best_match, highest_score)

find_movie_by_title_year(movies, title, year, original_title) ==
    IF \E k \in 1..Len(movies) : ExactTitleYear(movies[k], title, year, original_title)
    THEN movies[CHOOSE k \in 1..Len(movies) :
                    /\ ExactTitleYear(movies[k], title, year, original_title)
                    /\ \A n \in 1..(k - 1) :
                           ~ExactTitleYear(movies[n], title, year, original_title)]
    ELSE LET r == TitleYearScan(movies, 1, title, year, original_title, NoMovie, 0)
         IN  IF r.best_match # NoMovie /\ r.highest_score >= TITLE_YEAR_MATCH_RATIO
             THEN r.best_match
             ELSE NoMovie

RECURSIVE TitleScan_LastWins(_, _, _, _, _, _)
\* a loop that lets a later candidate with the same score take over
TitleScan_LastWins(movies, k, title, original_title, best_match, highest_score) ==
    IF k > Len(movies)
    THEN [ best_match |-> best_match, highest_score |-> highest_score ]
    ELSE LET score == current_score(movies[k], title, original_title)
         IN  IF score >= highest_score
             THEN TitleScan_LastWins(movies, k + 1, title, original_title,
                                     movies[k], score)
             ELSE TitleScan_LastWins(movies, k + 1, title, original_title,
                                     best_match, highest_score)

RECURSIVE TitleScan(_, _, _, _, _, _)
\* the loop of find_movie_by_title from movies[k] on
TitleScan(movies, k, title, original_title, best_match, highest_score) ==
    IF k > Len(movies)
    THEN [ best_match |-> best_match, highest_score |-> highest_score ]
    ELSE LET score == current_score(movies[k], title, original_title)
         IN  IF score > highest_score
             THEN TitleScan(movies, k + 1, title, original_title, movies[k], score)
             ELSE TitleScan(movies, k + 1, title, original_title,
                            best_match, highest_score)

\* a title-only tier that wants a score above the threshold
find_movie_by_title_Exclusive(movies, title, original_title) ==
    LET r == TitleScan(movies, 1, title, original_title, NoMovie, 0)
    IN  IF r.best_match # NoMovie /\ r.highest_score > TITLE_ONLY_MATCH_RATIO
        THEN r.best_match
        ELSE NoMovie

find_movie_by_title(movies, title, original_title) ==
    LET r == TitleScan(movies, 1, title, original_title, NoMovie, 0)
    IN  IF r.best_match # NoMovie /\ r.highest_score >= TITLE_ONLY_MATCH_RATIO
        THEN r.best_match
        ELSE NoMovie

\* an index that holds the IMDB ids of the members only
find_existing_collection_items_IdsOnly(collection_items) ==
    [ ratingKeys |-> {},
      imdbIds |-> { split(split(collection_items[k].guid, ImdbScheme)[2], << "?" >>)[1] :
                      k \in { n \in 1..Len(collection_items) :
                                Contains(collection_items[n].guid, ImdbScheme) } } ]

\* the keys of existing_items: every member's ratingKey, and its IMDB id if it has one
find_existing_collection_items(collection_items) ==
    [ ratingKeys |-> { collection_items[k].ratingKey : k \in 1..Len(collection_items) },
      imdbIds |-> { GuidImdbId(collection_items[k].guid) :
                      k \in { n \in 1..Len(collection_items) :
                                Contains(collection_items[n].guid, ImdbScheme) } } ]

RECURSIVE BuildImdbMap(_, _, _)
\* the loop that fills imdb_map: a later movie with the same id replaces an earlier one
BuildImdbMap(movies, k, map) ==
    IF k > Len(movies) THEN map
    ELSE IF Contains(movies[k].guid, ImdbScheme)
    THEN BuildImdbMap(movies, k + 1,
            [ id \in (DOMAIN map) \cup { GuidImdbId(movies[k].guid) } |->
                IF id = GuidImdbId(movies[k].guid) THEN movies[k] ELSE map[id] ])
    ELSE BuildImdbMap(movies, k + 1, map)

\* imdb_map.get(imdb_id)
ImdbMapGet(map, imdb_id) == IF imdb_id \in DOMAIN map THEN map[imdb_id] ELSE NoMovie

\* add_collection: True exactly for a response with status code 200
add_collection(response) == response = "status_200"

\* a test that never takes a row for one without an IMDB id
NoImdbId_Never(imdb_id) == FALSE

\* not imdb_id: find_imdb_id returned None
NoImdbId(imdb_id) == imdb_id = NoneStr

\* a test that sends every row on to the next tier
NotFound_Always(movie) == TRUE

\* not movie: the tiers tried so far found nothing
NotFound(movie) == movie = NoMovie

\* a test that takes every row for one with a year
HasYear_Always(year) == TRUE

\* if year and ...: the veto is tried only for a non-empty Year
HasYear(year) == year # << >>

\* a veto that already rejects a difference of 2
YearTooDifferent_AtLeast(movie_year, year) ==
    Abs(movie_year - IntOfStr(year)) >= YEAR_TOLERANCE

\* the title-only match is rejected: abs(int(movie.year) - int(year)) > 2
YearTooDifferent(movie_year, year) ==
    Abs(movie_year - IntOfStr(year)) > YEAR_TOLERANCE

\* the matcher cascade of one row: the locals imdb_id, movie and match_method when
\* the row's record is chosen, the tier that was reached, the movie the title-only
\* tier proposed, and the exception that int() raised, if any
Cascade(movies, map, row) ==
    LET imdb_id == find_imdb_id(row.url)
        by_id == ImdbMapGet(map, imdb_id)
        by_title_year ==
            find_movie_by_title_year(movies, row.Title, row.Year, row.OriginalTitle)
        by_title == find_movie_by_title(movies, row.Title, row.OriginalTitle)
        Locals(tier, movie, match_method, raised) ==
            [ imdb_id |-> imdb_id, tier |-> tier, movie |-> movie,
              match_method |-> match_method,
              candidate |-> IF tier = "title_only" THEN by_title ELSE NoMovie,
              raised |-> raised ]
    IN  IF NoImdbId(imdb_id) THEN Locals("no_id", NoMovie, "", "")
        ELSE IF ~NotFound(by_id) THEN Locals("imdb_id", by_id, "IMDB ID", "")
        ELSE IF ~NotFound(by_title_year)
        THEN Locals("title_year", by_title_year, "Title + Year Fuzzy Match", "")
        ELSE IF by_title = NoMovie THEN Locals("title_only", NoMovie, "", "")
        ELSE IF ~HasYear(row.Year)
        THEN Locals("title_only", by_title, "Title Only Fuzzy Match", "")
        ELSE IF by_title.year = NoneYear
        THEN Locals("title_only", by_title, "Title Only Fuzzy Match", "TypeError")
        ELSE IF ~IsIntLiteral(row.Year)
        THEN Locals("title_only", by_title, "Title Only Fuzzy Match", "ValueError")
        ELSE IF YearTooDifferent(by_title.year, row.Year)
        THEN Locals("title_only", NoMovie, "Title Only Fuzzy Match", "")
        ELSE Locals("title_only", by_title, "Title Only Fuzzy Match", "")

\* already_in_collection
IsMember(existing, movie, imdb_id) ==
    \/ movie.ratingKey \in existing.ratingKeys
    \/ imdb_id \in existing.imdbIds

\* report_item as created for row number idx; idx stands for the identity of the row
NewReportItem(idx, row, imdb_id) ==
    [ idx |-> idx, title |-> row.Title, year |-> row.Year,
      original_title |-> row.OriginalTitle,
      imdb_id |-> IF imdb_id = NoneStr THEN << >> ELSE imdb_id,
      status |-> "", match_method |-> "", plex_title |-> << >>,
      plex_year |-> << >>, notes |-> "" ]

\* report_item.update(...) with the matched movie; plex_year as the report prints it
WithMovie(report_item, status, match_method, movie, notes) ==
    [ report_item EXCEPT !.status = status, !.match_method = match_method,
                         !.plex_title = movie.title, !.plex_year = Str(movie.year),
                         !.notes = notes ]

\* a report that puts the newest record first
AppendReport_Front(report, report_item) == << report_item >> \o report

\* report_data.append(report_item)
AppendReport(report, report_item) == Append(report, report_item)

\* a pending list that puts the newest item first
AppendPending_Front(ordered, movie, report_item, match_method) ==
    << [ movie |-> movie, report_item |-> report_item,
         match_method |-> match_method, original_position |-> Len(ordered) ] >>
    \o ordered

\* ordered_movies.append({...})
AppendPending(ordered, movie, report_item, match_method) ==
    Append(ordered, [ movie |-> movie, report_item |-> report_item,
                      match_method |-> match_method,
                      original_position |-> Len(ordered) ])

\* a second pass that enters the movie it added into the index
IndexAfterAdd_Insert(existing, movie, success) ==
    IF success
    THEN [ existing EXCEPT !.ratingKeys = @ \cup { movie.ratingKey } ]
    ELSE existing

\* existing_collection_items after one iteration of the second pass: no statement
\* of the loop assigns to it
IndexAfterAdd(existing, movie, success) == existing

\* a second pass that stops at the first failed add
NextPending_StopOnFailure(k, success) ==
    IF success THEN k + 1 ELSE Len(ordered_movies) + 1

\* the second pass goes on with the next item, whatever add_collection returned
NextPending(k, success) == k + 1

\* a run that commits a pending item as soon as there is one
LoopPosition_EagerCommit(next_row, row_count, next_pending, pending_count) ==
    IF next_pending <= pending_count THEN "second_pass"
    ELSE IF next_row <= row_count THEN "first_pass"
    ELSE "done"

\* where run_imdb_list stands: in the loop over rows while a row is left, then in
\* the loop over ordered_movies while an item is left, then past the report
LoopPosition(next_row, row_count, next_pending, pending_count) ==
    IF next_row <= row_count THEN "first_pass"
    ELSE IF next_pending <= pending_count THEN "second_pass"
    ELSE "done"

\* collection_items: the movies of the library that carry the collection tag
CollectionItems == SelectSeq(library, LAMBDA m : m.ratingKey \in collection)

-----------------------------------------------------------------------------
(* Inputs *)

\* longest source list
MaxRows == 2

TheA == << "T", "h", "e", " ", "A" >>

UpperA == << "A" >>

LowerA == << "a" >>

UpperB == << "B" >>

Year2000 == << "2", "0", "0", "0" >>

NotAYear == << "x" >>

Id1 == << "t", "t", "1" >>

Id2 == << "t", "t", "2", "0" >>

\* the URL column of a row
TitleUrl(id) == << "/" >> \o id \o << "/" >>

NameUrl == << "/", "n", "m", "1", "/" >>

\* the guid of a movie matched by the IMDB agent, and of any other movie
ImdbGuid(id) == << "a", "." >> \o ImdbScheme \o id \o << "?", "e", "n" >>

PlexGuid == << "p", "l", "e", "x", ":", "/", "/", "m" >>

Row(url, title, original_title, year) ==
    [ url |-> url, Title |-> title, OriginalTitle |-> original_title, Year |-> year ]

Movie(ratingKey, title, year, guid) ==
    [ ratingKey |-> ratingKey, title |-> title, year |-> year, guid |-> guid ]

\* the rows a source list is made of
EntrySet ==
    { Row(NameUrl, UpperA, << >>, Year2000),
      Row(TitleUrl(Id1), UpperA, << >>, Year2000),
      Row(TitleUrl(Id2), UpperA, << >>, Year2000),
      Row(TitleUrl(Id2), UpperA, UpperB, << >>),
      Row(TitleUrl(Id2), UpperB, << >>, NotAYear),
      Row(TitleUrl(Id2), UpperB, << >>, Year2000) }

\* the libraries a run may meet
LibrarySet ==
    { << >>,
      << Movie(1, TheA, 2003, ImdbGuid(Id1)), Movie(2, LowerA, 2000, PlexGuid) >>,
      << Movie(1, TheA, 2003, PlexGuid), Movie(2, UpperB, 2000, PlexGuid) >>,
      << Movie(1, TheA, 2003, PlexGuid), Movie(2, UpperB, 2002, ImdbGuid(Id1)) >>,
      << Movie(1, TheA, 2002, PlexGuid), Movie(2, TheA, 2002, ImdbGuid(Id1)) >>,
      << Movie(1, TheA, NoneYear, PlexGuid), Movie(2, UpperB, 2000, ImdbGuid(Id1)) >> }

\* the scores fuzz.ratio gives two different non-empty strings
ScoreSet == { 84, 85, 89, 90 }

TitleUniverse == { TheA, UpperA, LowerA, UpperB }

CleanTitles == { clean_title(t) : t \in TitleUniverse } \ { << >> }

ScorePairs == { { a, b } : a \in CleanTitles, b \in CleanTitles } \ { { a } : a \in CleanTitles }

\* the responses of requests.put inside add_collection
ResponseSet == { "status_200", "status_other", "exception" }

SeqsUpTo(S, n) == UNION { [ 1..k -> S ] : k \in 0..n }

RatingKeys(movies) == { movies[k].ratingKey : k \in 1..Len(movies) }

NoTier == [ tier |-> "none", movie |-> NoMovie ]

-----------------------------------------------------------------------------
(* run_imdb_list *)

\* the locals of run_imdb_list before the library is fetched
RunStart ==
    /\ pc = "fetch_library"
    /\ all_movies = << >>
    /\ existing_collection_items = [ ratingKeys |-> {}, imdbIds |-> {} ]
    /\ members_fetch = "none"
    /\ imdb_map = << >>
    /\ added_count = 0
    /\ skipped_count = 0
    /\ missing_count = 0
    /\ ordered_movies = << >>
    /\ report_data = << >>
    /\ i = 1
    /\ j = 1
    /\ outcomes = << >>
    /\ add_calls = << >>

Init ==
    /\ rows \in SeqsUpTo(EntrySet, MaxRows)
    /\ library \in LibrarySet
    /\ collection \in SUBSET RatingKeys(library)
    /\ fuzz \in [ ScorePairs -> ScoreSet ]
    /\ run = "first"
    /\ first_report = << >>
    /\ tier_result = NoTier
    /\ title_key = << >>
    /\ RunStart

\* movie_library.all() returns the library
FetchLibrary ==
    /\ pc = "fetch_library"
    /\ all_movies' = library
    /\ pc' = "fetch_members"
    /\ UNCHANGED << rows, library, collection, fuzz, run, existing_collection_items,
                    members_fetch, imdb_map, added_count, skipped_count,
                    missing_count, ordered_movies, report_data, i, j, outcomes,
                    add_calls, first_report, tier_result, title_key >>

\* plex.library.section or movie_library.all() raises: return []
FetchLibraryFails ==
    /\ pc = "fetch_library"
    /\ pc' = "aborted"
    /\ UNCHANGED << rows, library, collection, fuzz, run, all_movies,
                    existing_collection_items, members_fetch, imdb_map, added_count,
                    skipped_count, missing_count, ordered_movies, report_data, i, j,
                    outcomes, add_calls, first_report, tier_result, title_key >>

\* what follows the member search up to the first pass: imdb_map and the counters
PrepareFirstPass ==
    /\ imdb_map' = BuildImdbMap(all_movies, 1, << >>)
    /\ added_count' = 0
    /\ skipped_count' = 0
    /\ missing_count' = 0
    /\ ordered_movies' = << >>
    /\ pc' = LoopPosition(i, Len(rows), j, 0)
    /\ UNCHANGED << rows, library, collection, fuzz, run, all_movies, report_data,
                    i, j, outcomes, add_calls, first_report, tier_result, title_key >>

\* find_existing_collection_items returns the index of the members
FetchMembers ==
    /\ pc = "fetch_members"
    /\ existing_collection_items' = find_existing_collection_items(CollectionItems)
    /\ members_fetch' = "ok"
    /\ PrepareFirstPass

\* the member search raises: find_existing_collection_items logs and returns {}
FetchMembersFails ==
    /\ pc = "fetch_members"
    /\ existing_collection_items' = [ ratingKeys |-> {}, imdbIds |-> {} ]
    /\ members_fetch' = "failed"
    /\ PrepareFirstPass

\* one iteration of the first pass
ClassifyRow ==
    /\ pc = "first_pass"
    /\ i <= Len(rows)
    /\ LET row == rows[i]
           c == Cascade(all_movies, imdb_map, row)
           report_item == NewReportItem(i, row, c.imdb_id)
       IN  /\ outcomes' = Append(outcomes, c)
           /\ IF c.raised # ""
              THEN /\ pc' = "raised"
                   /\ UNCHANGED << i, report_data, ordered_movies, added_count,
                                   skipped_count, missing_count >>
              ELSE /\ i' = i + 1
                   /\ added_count' = added_count
                   /\ IF c.tier = "no_id"
                      THEN /\ report_data' = AppendReport(report_data,
                                [ report_item EXCEPT
                                    !.status = "ERROR: No IMDB ID found",
                                    !.notes = "Invalid URL" ])
                           /\ missing_count' = missing_count + 1
                           /\ UNCHANGED << skipped_count, ordered_movies >>
                      ELSE IF c.movie = NoMovie
                      THEN /\ report_data' = AppendReport(report_data,
                                [ report_item EXCEPT
                                    !.status = "MISSING: Not found in Plex library",
                                    !.notes = "Could not match" ])
                           /\ missing_count' = missing_count + 1
                           /\ UNCHANGED << skipped_count, ordered_movies >>
                      ELSE IF IsMember(existing_collection_items, c.movie, c.imdb_id)
                      THEN /\ report_data' = AppendReport(report_data,
                                WithMovie(report_item, "SKIPPED:", c.match_method,
                                          c.movie, ""))
                           /\ skipped_count' = skipped_count + 1
                           /\ UNCHANGED << missing_count, ordered_movies >>
                      ELSE /\ ordered_movies' = AppendPending(ordered_movies, c.movie,
                                                    report_item, c.match_method)
                           /\ UNCHANGED << report_data, skipped_count, missing_count >>
                   /\ pc' = LoopPosition(i + 1, Len(rows), j, Len(ordered_movies'))
    /\ UNCHANGED << rows, library, collection, fuzz, run, all_movies,
                    existing_collection_items, members_fetch, imdb_map, j,
                    add_calls, first_report, tier_result, title_key >>

\* one iteration of the second pass: add_collection and the record of its result
CommitItem ==
    /\ pc = "second_pass"
    /\ j <= Len(ordered_movies)
    /\ \E response \in ResponseSet :
         LET item == ordered_movies[j]
             success == add_collection(response)
         IN  /\ add_calls' = Append(add_calls,
                    [ idx |-> item.report_item.idx,
                      ratingKey |-> item.movie.ratingKey, success |-> success ])
             /\ collection' = IF response = "status_200"
                              THEN collection \cup { item.movie.ratingKey }
                              ELSE collection
             /\ IF success
                THEN /\ report_data' = AppendReport(report_data,
                          WithMovie(item.report_item, "ADDED:", item.match_method,
                                    item.movie, ""))
                     /\ added_count' = added_count + 1
                     /\ UNCHANGED missing_count
                ELSE /\ report_data' = AppendReport(report_data,
                          WithMovie(item.report_item, "ERROR:", item.match_method,
                                    item.movie, "Plex API error"))
                     /\ missing_count' = missing_count + 1
                     /\ UNCHANGED added_count
             /\ existing_collection_items' =
                    IndexAfterAdd(existing_collection_items, item.movie, success)
             /\ j' = NextPending(j, success)
             /\ pc' = LoopPosition(i, Len(rows), j', Len(ordered_movies))
    /\ UNCHANGED << rows, library, fuzz, run, all_movies, members_fetch, imdb_map,
                    skipped_count, ordered_movies, i, outcomes, first_report,
                    tier_result, title_key >>

Next ==
    \/ FetchLibrary
    \/ FetchLibraryFails
    \/ FetchMembers
    \/ FetchMembersFails
    \/ ClassifyRow
    \/ CommitItem

Spec == Init /\ [][Next]_vars

-----------------------------------------------------------------------------
(* Two invocations in a row *)

RerunEntrySet ==
    { Row(NameUrl, UpperA, << >>, Year2000),
      Row(TitleUrl(Id1), UpperA, << >>, Year2000),
      Row(TitleUrl(Id2), UpperA, << >>, Year2000),
      Row(TitleUrl(Id2), UpperB, << >>, << >>) }

RerunLibrarySet ==
    { << Movie(1, TheA, 2003, ImdbGuid(Id1)), Movie(2, LowerA, 2000, PlexGuid) >>,
      << Movie(1, TheA, 2002, PlexGuid), Movie(2, UpperB, 2000, ImdbGuid(Id1)) >> }

InitRerun ==
    /\ rows \in SeqsUpTo(RerunEntrySet, MaxRows)
    /\ library \in RerunLibrarySet
    /\ collection \in SUBSET RatingKeys(library)
    /\ fuzz \in [ ScorePairs -> { 84, 90 } ]
    /\ run = "first"
    /\ first_report = << >>
    /\ tier_result = NoTier
    /\ title_key = << >>
    /\ RunStart

\* the tool is started again on the same CSV file, library and collection name
RunAgain ==
    /\ pc = "done"
    /\ run = "first"
    /\ run' = "second"
    /\ first_report' = report_data
    /\ pc' = "fetch_library"
    /\ all_movies' = << >>
    /\ existing_collection_items' = [ ratingKeys |-> {}, imdbIds |-> {} ]
    /\ members_fetch' = "none"
    /\ imdb_map' = << >>
    /\ added_count' = 0
    /\ skipped_count' = 0
    /\ missing_count' = 0
    /\ ordered_movies' = << >>
    /\ report_data' = << >>
    /\ i' = 1
    /\ j' = 1
    /\ outcomes' = << >>
    /\ add_calls' = << >>
    /\ UNCHANGED << rows, library, collection, fuzz, tier_result, title_key >>

NextRerun == Next \/ RunAgain

SpecRerun == InitRerun /\ [][NextRerun]_vars

-----------------------------------------------------------------------------
(* The fuzzy tiers on their own *)

\* most candidates handed to a tier
MaxCandidates == 2

MatchTitleSet == { TheA, LowerA, UpperB }

MatchYearSet == { 2000, 2003, NoneYear }

MatchRowSet ==
    { Row(TitleUrl(Id2), title, original_title, year) :
        title \in { UpperA, UpperB }, original_title \in { << >>, UpperB },
        year \in { Year2000, << >> } }

\* candidate lists: the ratingKey of a candidate is its place in the list
CandidateLists ==
    UNION { { [ k \in 1..n |-> Movie(k, t[k], y[k], PlexGuid) ] :
                t \in [ 1..n -> MatchTitleSet ], y \in [ 1..n -> MatchYearSet ] } :
            n \in 0..MaxCandidates }

InitMatch ==
    /\ rows \in { << r >> : r \in MatchRowSet }
    /\ all_movies \in CandidateLists
    /\ library = all_movies
    /\ collection = {}
    /\ fuzz \in [ ScorePairs -> ScoreSet ]
    /\ run = "first"
    /\ pc = "match"
    /\ existing_collection_items = [ ratingKeys |-> {}, imdbIds |-> {} ]
    /\ members_fetch = "none"
    /\ imdb_map = << >>
    /\ added_count = 0
    /\ skipped_count = 0
    /\ missing_count = 0
    /\ ordered_movies = << >>
    /\ report_data = << >>
    /\ i = 1
    /\ j = 1
    /\ outcomes = << >>
    /\ add_calls = << >>
    /\ first_report = << >>
    /\ tier_result = NoTier
    /\ title_key = << >>

\* movie = find_movie_by_title_year(all_movies, title, year, original_title)
MatchTitleYear ==
    /\ pc = "match"
    /\ tier_result' =
         [ tier |-> "title_year",
           movie |-> find_movie_by_title_year(all_movies, rows[1].Title, rows[1].Year,
                                              rows[1].OriginalTitle) ]
    /\ pc' = "matched"
    /\ UNCHANGED << rows, library, collection, fuzz, run, all_movies,
                    existing_collection_items, members_fetch, imdb_map, added_count,
                    skipped_count, missing_count, ordered_movies, report_data, i, j,
                    outcomes, add_calls, first_report, title_key >>

\* movie = find_movie_by_title(all_movies, title, original_title)
MatchTitleOnly ==
    /\ pc = "match"
    /\ tier_result' =
         [ tier |-> "title_only",
           movie |-> find_movie_by_title(all_movies, rows[1].Title,
                                         rows[1].OriginalTitle) ]
    /\ pc' = "matched"
    /\ UNCHANGED << rows, library, collection, fuzz, run, all_movies,
                    existing_collection_items, members_fetch, imdb_map, added_count,
                    skipped_count, missing_count, ordered_movies, report_data, i, j,
                    outcomes, add_calls, first_report, title_key >>

NextMatch == MatchTitleYear \/ MatchTitleOnly

SpecMatch == InitMatch /\ [][NextMatch]_vars

-----------------------------------------------------------------------------
(* clean_title on its own *)

\* longest title handed to clean_title
MaxTitleLen == 6

TitleAlphabet == { "T", "h", "e", " ", "a" }

TitleSet == SeqsUpTo(TitleAlphabet, MaxTitleLen)

InitTitle ==
    /\ rows \in { << Row(TitleUrl(Id2), title, << >>, << >>) >> : title \in TitleSet }
    /\ library = << >>
    /\ collection = {}
    /\ fuzz = << >>
    /\ run = "first"
    /\ pc = "title"
    /\ all_movies = << >>
    /\ existing_collection_items = [ ratingKeys |-> {}, imdbIds |-> {} ]
    /\ members_fetch = "none"
    /\ imdb_map = << >>
    /\ added_count = 0
    /\ skipped_count = 0
    /\ missing_count = 0
    /\ ordered_movies = << >>
    /\ report_data = << >>
    /\ i = 1
    /\ j = 1
    /\ outcomes = << >>
    /\ add_calls = << >>
    /\ first_report = << >>
    /\ tier_result = NoTier
    /\ title_key = << >>

\* clean_title(title)
CleanTitle ==
    /\ pc = "title"
    /\ title_key' = clean_title(rows[1].Title)
    /\ pc' = "cleaned"
    /\ UNCHANGED << rows, library, collection, fuzz, run, all_movies,
                    existing_collection_items, members_fetch, imdb_map, added_count,
                    skipped_count, missing_count, ordered_movies, report_data, i, j,
                    outcomes, add_calls, first_report, tier_result >>

NextTitle == CleanTitle

SpecTitle == InitTitle /\ [][NextTitle]_vars

-----------------------------------------------------------------------------
(* Properties *)

\* the places of the records of row number idx in a report
RecordsOf(report, idx) == { p \in 1..Len(report) : report[p].idx = idx }

\* the status of the record of row number idx in a report that holds one
StatusOf(report, idx) == report[CHOOSE p \in 1..Len(report) : report[p].idx = idx].status

\* the statuses the second pass writes
CommitStatus == { "ADDED:", "ERROR:" }

\* the run is over and got past the fetch of the library
RunEnded == pc \in { "done", "raised" }

\* C1: a run that gets past the snapshot fetch ends with a report of exactly
\* Len(rows) records, one for each row and none for a row twice.
C1_ReportHasOneRecordPerEntry ==
    RunEnded =>
        /\ Len(report_data) = Len(rows)
        /\ \A k \in 1..Len(rows) : Cardinality(RecordsOf(report_data, k)) = 1

\* C2: in the final report the record of row p precedes the record of row q
\* whenever p < q, whatever the statuses.
C2_ReportInSourceOrder ==
    pc = "done" =>
        \A p, q \in 1..Len(report_data) :
            p < q => report_data[p].idx < report_data[q].idx

\* C2, amended: the records of the first pass (no id, missing, skipped) come first,
\* in source order; the records of the second pass (added, add failed) follow, in
\* source order.
C2_ReportInPassThenSourceOrder ==
    \A p, q \in 1..Len(report_data) :
        p < q =>
            IF (report_data[p].status \in CommitStatus)
                 = (report_data[q].status \in CommitStatus)
            THEN report_data[p].idx < report_data[q].idx
            ELSE report_data[q].status \in CommitStatus

\* C2, witness: a finished report in which a later row's record comes first
C2_Witness ==
    /\ pc = "done"
    /\ \E p, q \in 1..Len(report_data) :
          /\ p < q
          /\ report_data[p].idx > report_data[q].idx
          /\ report_data[p].status = "MISSING: Not found in Plex library"
          /\ report_data[q].status = "ADDED:"

\* C3: the three counters sum to the number of records written so far at every
\* point between entries, and to the number of rows when the run is over.
C3_CountsSumToEntries ==
    /\ pc \in { "first_pass", "second_pass", "done", "raised" } =>
          added_count + skipped_count + missing_count = Len(report_data)
    /\ RunEnded => added_count + skipped_count + missing_count = Len(rows)

\* the second invocation is over and its member search succeeded
SecondRunDone == run = "second" /\ pc = "done" /\ members_fetch = "ok"

\* C4: the second run yields no Added record, makes no add call, and reports
\* every entry the first run added as already a member.
C4_SecondRunAddsNothing ==
    SecondRunDone =>
        /\ add_calls = << >>
        /\ \A p \in 1..Len(report_data) : report_data[p].status # "ADDED:"
        /\ \A p \in 1..Len(first_report) :
              first_report[p].status = "ADDED:" =>
                  StatusOf(report_data, first_report[p].idx) = "SKIPPED:"

\* C4, amended: the second run calls add_collection, and reports Added, only for
\* entries whose add call failed in the first run; every entry the first run
\* added or skipped is skipped.
C4_SecondRunAddsOnlyFailed ==
    /\ (run = "second" /\ members_fetch = "ok") =>
          \A p \in 1..Len(add_calls) :
              StatusOf(first_report, add_calls[p].idx) = "ERROR:"
    /\ SecondRunDone =>
          /\ \A p \in 1..Len(report_data) :
                report_data[p].status = "ADDED:" =>
                    StatusOf(first_report, report_data[p].idx) = "ERROR:"
          /\ \A p \in 1..Len(first_report) :
                first_report[p].status \in { "ADDED:", "SKIPPED:" } =>
                    StatusOf(report_data, first_report[p].idx) = "SKIPPED:"

\* C4, witness: a second run that skips what the first run added and adds what
\* the first run failed to add
C4_Witness ==
    /\ SecondRunDone
    /\ \E p \in 1..Len(first_report) :
          /\ first_report[p].status = "ADDED:"
          /\ StatusOf(report_data, first_report[p].idx) = "SKIPPED:"
    /\ \E p \in 1..Len(first_report) :
          /\ first_report[p].status = "ERROR:"
          /\ StatusOf(report_data, first_report[p].idx) = "ADDED:"

\* C5: add_collection is called in source order, for the movie the row resolved
\* to, whether or not the earlier calls succeeded.
C5_AddCallsInSourceOrder ==
    /\ \A p, q \in 1..Len(add_calls) :
          p < q => add_calls[p].idx < add_calls[q].idx
    /\ \A p \in 1..Len(add_calls) :
          add_calls[p].ratingKey = outcomes[add_calls[p].idx].movie.ratingKey

\* C5, witness: two add calls, the first of which failed
C5_Witness ==
    /\ Len(add_calls) = 2
    /\ ~add_calls[1].success
    /\ add_calls[2].success
    /\ add_calls[1].ratingKey # add_calls[2].ratingKey

\* a movie of the snapshot carries the IMDB id of processed row number k
CarriesIdOf(movie, k) == movie.guid = ImdbGuid(outcomes[k].imdb_id)

\* C6: a row whose IMDB id is carried by a movie of the snapshot resolves to a
\* movie carrying that id, with method "IMDB ID", and is recorded so.
C6_IdentifierPrecedence ==
    \A k \in 1..Len(outcomes) :
        (\E n \in 1..Len(all_movies) : CarriesIdOf(all_movies[n], k)) =>
            /\ CarriesIdOf(outcomes[k].movie, k)
            /\ outcomes[k].match_method = "IMDB ID"
            /\ \A p \in RecordsOf(report_data, k) :
                  /\ report_data[p].match_method = "IMDB ID"
                  /\ report_data[p].plex_title = outcomes[k].movie.title

\* C6, witness: a row resolved by its id to a movie whose year is more than 2 away,
\* while another movie matches the row's title and year exactly
C6_Witness ==
    \E k \in 1..Len(outcomes) :
        /\ CarriesIdOf(outcomes[k].movie, k)
        /\ IsIntLiteral(rows[k].Year)
        /\ Abs(outcomes[k].movie.year - IntOfStr(rows[k].Year)) > YEAR_TOLERANCE
        /\ \E n \in 1..Len(all_movies) :
              /\ ~CarriesIdOf(all_movies[n], k)
              /\ ExactTitleYear(all_movies[n], rows[k].Title, rows[k].Year,
                                rows[k].OriginalTitle)
        /\ RecordsOf(report_data, k) # {}

\* C7: the title+year tier never returns a movie whose year, as a string, differs
\* from the row's year.
C7_TitleYearTierKeepsYear ==
    (tier_result.tier = "title_year" /\ tier_result.movie # NoMovie) =>
        Str(tier_result.movie.year) = rows[1].Year

\* C7, witness: the similarity pass returns a movie of the row's year although a
\* movie of another year scores strictly higher
C7_Witness ==
    /\ tier_result.tier = "title_year"
    /\ tier_result.movie # NoMovie
    /\ \A n \in 1..Len(all_movies) :
          ~ExactTitleYear(all_movies[n], rows[1].Title, rows[1].Year,
                          rows[1].OriginalTitle)
    /\ \E n \in 1..Len(all_movies) :
          /\ Str(all_movies[n].year) # rows[1].Year
          /\ current_score(all_movies[n], rows[1].Title, rows[1].OriginalTitle)
               > current_score(tier_result.movie, rows[1].Title, rows[1].OriginalTitle)

\* processed row number k reached the title-only tier with a year, and the tier
\* proposed a movie that has a year
TitleOnlyWithYears(k) ==
    /\ outcomes[k].tier = "title_only"
    /\ outcomes[k].candidate # NoMovie
    /\ outcomes[k].candidate.year # NoneYear
    /\ IsIntLiteral(rows[k].Year)

\* the distance between the year of row number k and the year of the proposed movie
YearDistance(k) == Abs(outcomes[k].candidate.year - IntOfStr(rows[k].Year))

\* C8: a title-only match whose year is more than 2 away from the row's year is
\* dropped: the row is reported missing, is not queued and gets no add call;
\* a distance of 2 or less is accepted.
C8_TitleOnlyVeto ==
    \A k \in 1..Len(outcomes) :
        TitleOnlyWithYears(k) =>
            IF YearDistance(k) > 2
            THEN /\ outcomes[k].movie = NoMovie
                 /\ \E p \in 1..Len(report_data) :
                       /\ report_data[p].idx = k
                       /\ report_data[p].status = "MISSING: Not found in Plex library"
                 /\ \A p \in 1..Len(ordered_movies) :
                       ordered_movies[p].report_item.idx # k
                 /\ \A p \in 1..Len(add_calls) : add_calls[p].idx # k
            ELSE /\ outcomes[k].movie = outcomes[k].candidate
                 /\ outcomes[k].match_method = "Title Only Fuzzy Match"
                 /\ \A p \in RecordsOf(report_data, k) :
                       report_data[p].status
                           \in { "SKIPPED:", "ADDED:", "ERROR:" }

\* C8, witness: a finished run with one row vetoed at a distance of 3 and one row
\* accepted at a distance of exactly 2
C8_Witness ==
    /\ pc = "done"
    /\ \E k \in 1..Len(outcomes) : TitleOnlyWithYears(k) /\ YearDistance(k) = 3
    /\ \E k \in 1..Len(outcomes) :
          /\ TitleOnlyWithYears(k)
          /\ YearDistance(k) = 2
          /\ RecordsOf(report_data, k) # {}

\* C9: when the run is done every pending item has had its add call and has its
\* record: Added after a success, Error with a note after a failure.
C9_FailedAddDoesNotStopCommit ==
    pc = "done" =>
        /\ Len(add_calls) = Len(ordered_movies)
        /\ \A k \in 1..Len(ordered_movies) :
              /\ add_calls[k].idx = ordered_movies[k].report_item.idx
              /\ Cardinality(RecordsOf(report_data, add_calls[k].idx)) = 1
              /\ \A p \in RecordsOf(report_data, add_calls[k].idx) :
                    IF add_calls[k].success
                    THEN report_data[p].status = "ADDED:"
                    ELSE /\ report_data[p].status = "ERROR:"
                         /\ report_data[p].notes = "Plex API error"

\* C9, witness: a finished run whose first add call failed and whose second add
\* call was made and succeeded
C9_Witness ==
    /\ pc = "done"
    /\ Len(add_calls) = 2
    /\ ~add_calls[1].success
    /\ add_calls[2].success
    /\ StatusOf(report_data, add_calls[1].idx) = "ERROR:"
    /\ StatusOf(report_data, add_calls[2].idx) = "ADDED:"

\* C10: when the fetch of the library or of the collection's members fails, no
\* row is classified, no record is written and add_collection is not called.
C10_FetchFailureAbortsRun ==
    (pc = "aborted" \/ members_fetch = "failed") =>
        /\ outcomes = << >>
        /\ report_data = << >>
        /\ ordered_movies = << >>
        /\ add_calls = << >>

\* processed row number k has a record with this status
Recorded(k, status) ==
    \E p \in 1..Len(report_data) :
        report_data[p].idx = k /\ report_data[p].status = status

\* processed row number k is queued for addition
Queued(k) == \E p \in 1..Len(ordered_movies) : ordered_movies[p].report_item.idx = k

\* a fuzzy tier finds a movie for processed row number k
FuzzyTierMatches(k) ==
    \/ find_movie_by_title_year(all_movies, rows[k].Title, rows[k].Year,
                                rows[k].OriginalTitle) # NoMovie
    \/ /\ rows[k].Year = << >>
       /\ find_movie_by_title(all_movies, rows[k].Title, rows[k].OriginalTitle) # NoMovie

\* C11: a row without an IMDB id that a fuzzy tier can match resolves to that
\* match and is skipped or queued, not reported as an error.
C11_NoIdStillFuzzyMatched ==
    \A k \in 1..Len(outcomes) :
        (find_imdb_id(rows[k].url) = NoneStr /\ FuzzyTierMatches(k)) =>
            /\ outcomes[k].movie # NoMovie
            /\ Recorded(k, "SKIPPED:") \/ Queued(k)

\* C11, amended: a row without an IMDB id is run through no tier: it is recorded
\* with the error "No IMDB ID found" and a note, is not queued and gets no add
\* call; the fuzzy tiers run only for rows that have an id.
C11_NoIdIsAnError ==
    \A k \in 1..Len(outcomes) :
        /\ find_imdb_id(rows[k].url) = NoneStr =>
              /\ outcomes[k].tier = "no_id"
              /\ outcomes[k].movie = NoMovie
              /\ Recorded(k, "ERROR: No IMDB ID found")
              /\ \A p \in RecordsOf(report_data, k) :
                    /\ report_data[p].notes # ""
                    /\ report_data[p].match_method = ""
                    /\ report_data[p].imdb_id = << >>
              /\ ~Queued(k)
              /\ \A p \in 1..Len(add_calls) : add_calls[p].idx # k
        /\ outcomes[k].tier \in { "title_year", "title_only" } =>
              find_imdb_id(rows[k].url) # NoneStr

\* C11, witness: a row without an id is recorded as an error although a movie of
\* the snapshot matches its title and year exactly
C11_Witness ==
    \E k \in 1..Len(outcomes) :
        /\ find_imdb_id(rows[k].url) = NoneStr
        /\ \E n \in 1..Len(all_movies) :
              ExactTitleYear(all_movies[n], rows[k].Title, rows[k].Year,
                             rows[k].OriginalTitle)
        /\ Recorded(k, "ERROR: No IMDB ID found")

\* C12: whatever the fields of a row are, its processing ends with a record (at
\* once, or in the second pass for a queued row) and the run goes on: no row
\* makes run_imdb_list raise.
C12_EntryErrorsAreLocal ==
    /\ pc # "raised"
    /\ \A k \in 1..Len(outcomes) :
          /\ outcomes[k].raised = ""
          /\ RecordsOf(report_data, k) # {} \/ Queued(k)
    /\ pc = "done" => \A k \in 1..Len(rows) : RecordsOf(report_data, k) # {}

\* the first pass has begun and no add call has changed the collection yet
IndexIsCurrent ==
    /\ pc \in { "first_pass", "second_pass", "done", "raised" }
    /\ add_calls = << >>

\* the index holds the ratingKey of every member and the IMDB id of every member
\* whose guid carries one
IndexHoldsEveryMember ==
    \A n \in 1..Len(library) :
        library[n].ratingKey \in collection =>
            /\ library[n].ratingKey \in existing_collection_items.ratingKeys
            /\ \A id \in { Id1, Id2 } :
                  library[n].guid = ImdbGuid(id) =>
                      id \in existing_collection_items.imdbIds

\* a matched row is skipped, and not queued, exactly when the ratingKey of its
\* movie or its own IMDB id is in the index
SkippedIffInIndex ==
    \A k \in 1..Len(outcomes) :
        (outcomes[k].movie # NoMovie /\ outcomes[k].raised = "") =>
            /\ Recorded(k, "SKIPPED:") <=>
                  \/ outcomes[k].movie.ratingKey \in existing_collection_items.ratingKeys
                  \/ outcomes[k].imdb_id \in existing_collection_items.imdbIds
            /\ Recorded(k, "SKIPPED:") <=>
                  ~(Queued(k) \/ \E p \in 1..Len(add_calls) : add_calls[p].idx = k)

\* C13: a matched row is classified as already a member exactly when its movie's
\* ratingKey or its IMDB id is in the index, and the index holds the keys of
\* every current member of the collection.
C13_MembershipCheck ==
    /\ SkippedIffInIndex
    /\ IndexIsCurrent => IndexHoldsEveryMember


\* the score of candidate number n against the row handed to the tier
CandidateScore(n) == current_score(all_movies[n], rows[1].Title, rows[1].OriginalTitle)

\* the candidates whose year, as a string, is the row's year
YearMatching == { n \in 1..Len(all_movies) : Str(all_movies[n].year) = rows[1].Year }

\* the highest score among the candidates S, 0 when there is none
TopScore(S) ==
    IF S = {} THEN 0
    ELSE CHOOSE v \in { CandidateScore(n) : n \in S } :
             \A n \in S : CandidateScore(n) <= v

\* no candidate passes the exact pass of the title+year tier
NoExactMatch ==
    \A n \in 1..Len(all_movies) :
        ~ExactTitleYear(all_movies[n], rows[1].Title, rows[1].Year, rows[1].OriginalTitle)

\* the tier returned one of the candidates S, and one with their highest score
ReturnedTopOf(S) ==
    \E n \in S : /\ all_movies[n] = tier_result.movie
                 /\ CandidateScore(n) = TopScore(S)

\* C14: the similarity pass of the title+year tier returns its best year-matching
\* candidate exactly when that candidate scores at least 85, and the title-only
\* tier returns its best candidate exactly when it scores at least 90; otherwise
\* the tier returns no match.
C14_ThresholdsInclusive ==
    /\ (tier_result.tier = "title_year" /\ NoExactMatch) =>
          IF TopScore(YearMatching) >= 85
          THEN ReturnedTopOf(YearMatching)
          ELSE tier_result.movie = NoMovie
    /\ tier_result.tier = "title_only" =>
          IF TopScore(1..Len(all_movies)) >= 90
          THEN ReturnedTopOf(1..Len(all_movies))
          ELSE tier_result.movie = NoMovie

\* C14, witness: the title-only tier returns a candidate whose score is exactly 90
C14_Witness ==
    /\ tier_result.tier = "title_only"
    /\ TopScore(1..Len(all_movies)) = 90
    /\ tier_result.movie # NoMovie

\* the similarity pass of the title+year tier returns a candidate that scores 85
TitleYearAcceptsAt85 ==
    /\ tier_result.tier = "title_year"
    /\ NoExactMatch
    /\ TopScore(YearMatching) = 85
    /\ tier_result.movie # NoMovie

\* a tier whose best candidate scores one below its threshold returns no match
RejectsJustBelow ==
    /\ tier_result.movie = NoMovie
    /\ \/ tier_result.tier = "title_year" /\ NoExactMatch /\ TopScore(YearMatching) = 84
       \/ tier_result.tier = "title_only" /\ TopScore(1..Len(all_movies)) = 89

\* the statuses of the records of matched rows
MatchedStatus == { "SKIPPED:", "ADDED:", "ERROR:" }

\* some movie of the snapshot carries the IMDB id of processed row number k
IdLookupFinds(k) == \E n \in 1..Len(all_movies) : CarriesIdOf(all_movies[n], k)

\* what the title+year tier returns for row number k
TitleYearResult(k) ==
    find_movie_by_title_year(all_movies, rows[k].Title, rows[k].Year, rows[k].OriginalTitle)

\* what the title-only tier returns for row number k
TitleOnlyResult(k) == find_movie_by_title(all_movies, rows[k].Title, rows[k].OriginalTitle)

\* C15: the cascade stops at the first tier that finds a movie: a row whose id is
\* found is resolved by the id lookup, a row resolved by the title+year tier had no
\* id hit, a row that reached the title-only tier had neither, and the
\* method recorded for a matched row names the tier whose result is the matched movie.
C15_CascadeStopsAtFirstMatch ==
    \A k \in 1..Len(outcomes) :
        LET o == outcomes[k]
            by_id == IdLookupFinds(k)
            by_title_year == TitleYearResult(k)
            by_title == TitleOnlyResult(k)
        IN  /\ IF NoImdbId(o.imdb_id) THEN o.tier = "no_id" /\ ~by_id
               ELSE IF by_id THEN o.tier = "imdb_id"
               ELSE IF by_title_year # NoMovie THEN o.tier = "title_year"
               ELSE o.tier = "title_only"
            /\ CASE o.tier = "imdb_id" ->
                      o.match_method = "IMDB ID" /\ CarriesIdOf(o.movie, k)
                 [] o.tier = "title_year" ->
                      o.match_method = "Title + Year Fuzzy Match" /\ o.movie = by_title_year
                 [] o.tier = "title_only" /\ by_title # NoMovie ->
                      o.match_method = "Title Only Fuzzy Match"
                      /\ o.movie \in { by_title, NoMovie }
                 [] OTHER -> o.match_method = "" /\ o.movie = NoMovie
            /\ \A p \in RecordsOf(report_data, k) :
                  report_data[p].status \in MatchedStatus =>
                      /\ o.movie # NoMovie
                      /\ report_data[p].match_method = o.match_method
                      /\ report_data[p].plex_title = o.movie.title

\* C15, witness: a row without an id hit is recorded as matched by the title+year
\* tier although the title-only tier would have returned another movie
C15_Witness ==
    \E k \in 1..Len(outcomes) :
        /\ ~IdLookupFinds(k)
        /\ outcomes[k].movie = TitleYearResult(k)
        /\ TitleOnlyResult(k) \notin { NoMovie, outcomes[k].movie }
        /\ \E p \in RecordsOf(report_data, k) :
              /\ report_data[p].status \in MatchedStatus
              /\ report_data[p].match_method = "Title + Year Fuzzy Match"

\* C16: a row with an empty Year that reaches the title-only tier is matched to the
\* candidate the tier returns, whatever the candidate's year, and nothing is raised.
C16_EmptyYearSkipsVeto ==
    \A k \in 1..Len(outcomes) :
        (outcomes[k].tier = "title_only" /\ rows[k].Year = << >>) =>
            /\ outcomes[k].movie = TitleOnlyResult(k)
            /\ outcomes[k].raised = ""
            /\ outcomes[k].movie # NoMovie =>
                  /\ outcomes[k].match_method = "Title Only Fuzzy Match"
                  /\ Recorded(k, "SKIPPED:") \/ Queued(k)

\* C16, witness: a row with an empty Year is matched by the title-only tier to a
\* movie that has no year
C16_Witness ==
    \E k \in 1..Len(outcomes) :
        /\ outcomes[k].tier = "title_only"
        /\ rows[k].Year = << >>
        /\ outcomes[k].movie # NoMovie
        /\ outcomes[k].movie.year = NoneYear
        /\ Queued(k)

Article == << "t", "h", "e", " " >>

\* s without the article it starts with, if it starts with one
WithoutLeadingArticle(s) ==
    IF MatchAt(s, Article, 1) THEN SubSeq(s, Len(Article) + 1, Len(s)) ELSE s

\* C17: the key of a title is the lower-cased title with at most one leading
\* "the " removed and the whitespace around it trimmed, whether the article is
\* looked for before or after the leading whitespace is trimmed.
C17_OnlyLeadingArticleRemoved ==
    pc = "cleaned" =>
        title_key \in { strip(WithoutLeadingArticle(lower(rows[1].Title))),
                        strip(WithoutLeadingArticle(strip(lower(rows[1].Title)))) }

\* the statuses of the records the first pass writes
FirstPassStatus ==
    { "ERROR: No IMDB ID found", "MISSING: Not found in Plex library", "SKIPPED:" }

\* the records of a report that the first pass wrote
FirstPassRecords(report) == SelectSeq(report, LAMBDA r : r.status \in FirstPassStatus)

\* every row has been classified: it has its first-pass record or is queued
EveryRowClassified ==
    /\ i > Len(rows)
    /\ Len(outcomes) = Len(rows)
    /\ \A k \in 1..Len(rows) :
          \/ Queued(k) /\ \A p \in RecordsOf(report_data, k) :
                              report_data[p].status \in CommitStatus
          \/ ~Queued(k) /\ \E p \in RecordsOf(report_data, k) :
                               report_data[p].status \in FirstPassStatus

\* from the first call of add_collection on, the first-pass records and the pending
\* list stay as they are
ClassificationIsFinal ==
    add_calls' # << >> =>
        /\ ordered_movies' = ordered_movies
        /\ FirstPassRecords(report_data') = FirstPassRecords(report_data)

\* C18: add_collection is called only when every row has been classified, and from
\* its first call on no first-pass record is written and the pending list does not
\* change.
C18_TwoPhase ==
    /\ [](add_calls # << >> => EveryRowClassified)
    /\ [][ClassificationIsFinal]_vars

\* C18, witness: the first row is added while the record of the second row,
\* classified as missing, is already in the report
C18_Witness ==
    /\ Len(add_calls) = 1
    /\ add_calls[1].idx = 1
    /\ Len(rows) = 2
    /\ Recorded(2, "MISSING: Not found in Plex library")
    /\ Recorded(1, "ADDED:")

\* a step of the first or of the second pass leaves the snapshot, the id map and the
\* membership index as the initial fetch built them
FetchedStateUnchanged ==
    pc \in { "first_pass", "second_pass" } =>
        UNCHANGED << all_movies, imdb_map, existing_collection_items >>

\* C19: after the initial fetch no step of the classification or of the commit pass
\* changes all_movies, imdb_map or existing_collection_items, and no movie that
\* add_collection was called for is in the membership index.
C19_FetchedStateFrozen ==
    /\ [][FetchedStateUnchanged]_vars
    /\ [](\A n \in 1..Len(add_calls) :
             add_calls[n].ratingKey \notin existing_collection_items.ratingKeys)

\* C19, witness: a movie was added to the collection of a run whose member search
\* succeeded, and the index built by that search does not hold it
C19_Witness ==
    /\ members_fetch = "ok"
    /\ existing_collection_items.ratingKeys # {}
    /\ \E n \in 1..Len(add_calls) :
          /\ add_calls[n].success
          /\ add_calls[n].ratingKey \in collection
          /\ add_calls[n].ratingKey \notin existing_collection_items.ratingKeys

\* the first of the candidates S that reaches their highest score
FirstTopOf(S) ==
    all_movies[CHOOSE n \in S :
                   /\ CandidateScore(n) = TopScore(S)
                   /\ \A m \in S : CandidateScore(m) = TopScore(S) => n <= m]

\* several of the candidates S reach their highest score
TieAtTop(S) ==
    \E m, n \in S : /\ m # n
                    /\ CandidateScore(m) = TopScore(S)
                    /\ CandidateScore(n) = TopScore(S)

\* C20: the movie a similarity pass returns is the first one in the snapshot among
\* the eligible candidates with the highest score.
C20_FirstSeenWinsTies ==
    tier_result.movie # NoMovie =>
        /\ (tier_result.tier = "title_year" /\ NoExactMatch) =>
              tier_result.movie = FirstTopOf(YearMatching)
        /\ tier_result.tier = "title_only" =>
              tier_result.movie = FirstTopOf(1..Len(all_movies))

\* C20, witness: two candidates share the highest score, below 100, and the
\* title-only tier returns the first of them
C20_Witness ==
    /\ tier_result.tier = "title_only"
    /\ TieAtTop(1..Len(all_movies))
    /\ TopScore(1..Len(all_movies)) = 90
    /\ tier_result.movie = all_movies[1]

\* two year-matching candidates share the highest score and the similarity pass of
\* the title+year tier returns the first of them
TitleYearTieGoesToFirst ==
    /\ tier_result.tier = "title_year"
    /\ NoExactMatch
    /\ TieAtTop(YearMatching)
    /\ tier_result.movie = all_movies[1]


\* C21: within one run add_collection is called at most once for a movie: no two
\* calls carry the same ratingKey.
C21_OneAddPerItem ==
    \A m, n \in 1..Len(add_calls) :
        m # n => add_calls[m].ratingKey # add_calls[n].ratingKey

\* two rows resolved to one movie that was no member when the member search
\* succeeded, and add_collection was called for it twice
AddedTwiceAfterMemberSearch ==
    /\ members_fetch = "ok"
    /\ \E m, n \in 1..Len(add_calls) :
          /\ m # n
          /\ add_calls[m].ratingKey = add_calls[n].ratingKey
          /\ add_calls[m].idx # add_calls[n].idx
          /\ add_calls[m].success

\* movie scores at least 90 against row number k and its year is within 2 of the
\* row's year
CloseCandidate(movie, k) ==
    /\ current_score(movie, rows[k].Title, rows[k].OriginalTitle) >= TITLE_ONLY_MATCH_RATIO
    /\ movie.year # NoneYear
    /\ Abs(movie.year - IntOfStr(rows[k].Year)) <= YEAR_TOLERANCE

\* C22: a row with a year that reaches the title-only tier while some movie of the
\* snapshot scores at least 90 with a year within 2 of the row's year is matched to
\* such a movie, and is not reported missing.
C22_CloseCandidateIsMatched ==
    \A k \in 1..Len(outcomes) :
        ( /\ outcomes[k].tier = "title_only"
          /\ IsIntLiteral(rows[k].Year)
          /\ \E n \in 1..Len(all_movies) : CloseCandidate(all_movies[n], k) ) =>
            /\ outcomes[k].movie # NoMovie
            /\ CloseCandidate(outcomes[k].movie, k)
            /\ ~Recorded(k, "MISSING: Not found in Plex library")

=============================================================================
